---- MODULE Spec2Model ----
(***************************************************************************)
(* A model of sciris/sc_datetime.py: the shape normaliser, the format      *)
(* catalog, readdate, date, day, daterange, datedelta and elapsedtimestr,  *)
(* and the stopwatch: tic, toc, toctic and Timer.                          *)
(*                                                                         *)
(* Python values are records tagged with their type in field t:            *)
(*   None      [t |-> "None"]                                              *)
(*   str       [t |-> "str",  s |-> <<one-character strings>>]             *)
(*   number    [t |-> "num",  h |-> the value counted in halves]           *)
(*   date      [t |-> "date", y, m, d]                                     *)
(*   datetime  [t |-> "datetime", y, m, d, H, M, S, f, tz]                 *)
(*   bool      [t |-> "bool", b |-> TRUE or FALSE]                         *)
(*   list      [t |-> "list", items |-> <<values>>]                        *)
(*   ndarray   [t |-> "array", items |-> <<values>>]                       *)
(* A call ends as [ok |-> TRUE, val |-> value] or as                       *)
(* [ok |-> FALSE, err |-> [exc, site, ...]] where site names the raise     *)
(* statement the exception came from.                                      *)
(***************************************************************************)
EXTENDS Integers, Sequences, FiniteSets, TLC

----------------------------------------------------------------------------
(* Characters and strings                                                  *)

Digits == <<"0", "1", "2", "3", "4", "5", "6", "7", "8", "9">>

IsDigit(c) == \E i \in 1..10 : Digits[i] = c

DigitVal(c) == (CHOOSE i \in 1..10 : Digits[i] = c) - 1

DigitChr(n) == Digits[n + 1]

UpperLetters == <<"A", "B", "C", "D", "E", "F", "G", "H", "I", "J", "K", "L", "M",
                  "N", "O", "P", "Q", "R", "S", "T", "U", "V", "W", "X", "Y", "Z">>

LowerLetters == <<"a", "b", "c", "d", "e", "f", "g", "h", "i", "j", "k", "l", "m",
                  "n", "o", "p", "q", "r", "s", "t", "u", "v", "w", "x", "y", "z">>

\* the regular expressions of strptime are compiled with IGNORECASE
Lower(c) == IF \E i \in 1..26 : UpperLetters[i] = c
            THEN LowerLetters[CHOOSE i \in 1..26 : UpperLetters[i] = c]
            ELSE c

IsSpace(c) == c = " "

\* F(v), the value v being computed once
Bind(v, F(_)) == CHOOSE out \in {F(r) : r \in {v}} : TRUE

\* zero-padded decimal of n on w characters (n < 10^w)
RECURSIVE ZeroPad(_, _)
ZeroPad(n, w) == IF w = 0 THEN <<>> ELSE Append(ZeroPad(n \div 10, w - 1), DigitChr(n % 10))

\* the decimal value of the characters s[j .. j+len-1]
RECURSIVE NumAt(_, _, _)
NumAt(s, j, len) == IF len = 0 THEN 0
                    ELSE 10 * NumAt(s, j, len - 1) + DigitVal(s[j + len - 1])

DigitsAt(s, j, len) == j + len - 1 <= Len(s) /\ \A k \in j..(j + len - 1) : IsDigit(s[k])

----------------------------------------------------------------------------
(* The proleptic Gregorian calendar of datetime.date                       *)

IsLeap(y) == (y % 4 = 0 /\ y % 100 # 0) \/ y % 400 = 0

DaysInMonth(y, m) == IF m = 2 THEN (IF IsLeap(y) THEN 29 ELSE 28)
                     ELSE IF m \in {4, 6, 9, 11} THEN 30 ELSE 31

DaysBeforeYear(y) == LET p == y - 1 IN p * 365 + (p \div 4) - (p \div 100) + (p \div 400)

RECURSIVE DaysBeforeMonth(_, _)
DaysBeforeMonth(y, m) == IF m = 1 THEN 0
                         ELSE DaysBeforeMonth(y, m - 1) + DaysInMonth(y, m - 1)

\* date.toordinal(): 0001-01-01 is day 1
ToOrdinal(dd) == DaysBeforeYear(dd.y) + DaysBeforeMonth(dd.y, dd.m) + dd.d

\* date.fromordinal(): the year is found by the 400/100/4/1-year cycles
YearOfOrdinal(n) ==
    LET n0   == n - 1
        n400 == n0 \div 146097
        r400 == n0 % 146097
        n100 == r400 \div 36524
        r100 == r400 % 36524
        n4   == r100 \div 1461
        r4   == r100 % 1461
        n1   == r4 \div 365
        yr   == n400 * 400 + 1 + n100 * 100 + n4 * 4 + n1
    IN  IF n1 = 4 \/ n100 = 4 THEN yr - 1 ELSE yr

MonthOfOrdinal(n) ==
    LET y == YearOfOrdinal(n)
        r == n - DaysBeforeYear(y)
    IN  CHOOSE m \in 1..12 : DaysBeforeMonth(y, m) < r /\ r <= DaysBeforeMonth(y, m) + DaysInMonth(y, m)

MkDate(y, m, d) == [t |-> "date", y |-> y, m |-> m, d |-> d]

FromOrdinal(n) ==
    Bind(YearOfOrdinal(n), LAMBDA y :
    Bind(MonthOfOrdinal(n), LAMBDA m :
         MkDate(y, m, n - DaysBeforeYear(y) - DaysBeforeMonth(y, m))))

MkDatetime(y, m, d, H, M, S, f) ==
    [t |-> "datetime", y |-> y, m |-> m, d |-> d, H |-> H, M |-> M, S |-> S, f |-> f,
     tz |-> "naive"]

\* datetime.date(): drop the time of day
DateOf(ts) == MkDate(ts.y, ts.m, ts.d)

\* date + timedelta(days=n), datetime + relativedelta(days=n)
AddDays(v, n) ==
    Bind(FromOrdinal(ToOrdinal(v) + n),
         LAMBDA nd : IF v.t = "datetime" THEN [v EXCEPT !.y = nd.y, !.m = nd.m, !.d = nd.d] ELSE nd)

\* (a - b).days for two dates
DaysBetween(a, b) == ToOrdinal(a) - ToOrdinal(b)

----------------------------------------------------------------------------
(* strftime and strptime of the datetime library.  A format is the         *)
(* sequence of its tokens: a directive ("%Y", "%m", ...) or one literal    *)
(* character.                                                              *)

MonthFull == <<<<"J", "a", "n", "u", "a", "r", "y">>,
              <<"F", "e", "b", "r", "u", "a", "r", "y">>,
              <<"M", "a", "r", "c", "h">>,
              <<"A", "p", "r", "i", "l">>,
              <<"M", "a", "y">>,
              <<"J", "u", "n", "e">>,
              <<"J", "u", "l", "y">>,
              <<"A", "u", "g", "u", "s", "t">>,
              <<"S", "e", "p", "t", "e", "m", "b", "e", "r">>,
              <<"O", "c", "t", "o", "b", "e", "r">>,
              <<"N", "o", "v", "e", "m", "b", "e", "r">>,
              <<"D", "e", "c", "e", "m", "b", "e", "r">>>>

MonthAbbr == [k \in 1..12 |-> SubSeq(MonthFull[k], 1, 3)]

DayAbbr == <<<<"M", "o", "n">>, <<"T", "u", "e">>, <<"W", "e", "d">>, <<"T", "h", "u">>, <<"F", "r", "i">>, <<"S", "a", "t">>, <<"S", "u", "n">>>>

Directives == {"%Y", "%m", "%d", "%b", "%B", "%H", "%M", "%S", "%f", "%a"}

\* date.weekday(): Monday is 0
Weekday(v) == (ToOrdinal(v) + 6) % 7

HourOf(v) == IF v.t = "datetime" THEN v.H ELSE 0
MinuteOf(v) == IF v.t = "datetime" THEN v.M ELSE 0
SecondOf(v) == IF v.t = "datetime" THEN v.S ELSE 0
MicroOf(v) == IF v.t = "datetime" THEN v.f ELSE 0

FormatToken(v, tok) ==
    CASE tok = "%Y" -> ZeroPad(v.y, 4)
      [] tok = "%m" -> ZeroPad(v.m, 2)
      [] tok = "%d" -> ZeroPad(v.d, 2)
      [] tok = "%b" -> MonthAbbr[v.m]
      [] tok = "%B" -> MonthFull[v.m]
      [] tok = "%H" -> ZeroPad(HourOf(v), 2)
      [] tok = "%M" -> ZeroPad(MinuteOf(v), 2)
      [] tok = "%S" -> ZeroPad(SecondOf(v), 2)
      [] tok = "%f" -> ZeroPad(MicroOf(v), 6)
      [] tok = "%a" -> DayAbbr[Weekday(v) + 1]
      [] OTHER -> <<tok>>

\* v.strftime(fmt) for a date or a datetime v: the characters of the result
RECURSIVE strftime(_, _)
strftime(v, fmt) == IF fmt = <<>> THEN <<>>
                    ELSE FormatToken(v, Head(fmt)) \o strftime(v, Tail(fmt))

\* s[j..] starts with the characters of name, letter case ignored
NameAt(s, j, name) == /\ j + Len(name) - 1 <= Len(s)
                      /\ \A k \in 1..Len(name) : Lower(s[j + k - 1]) = Lower(name[k])

NameCands(s, j, names) ==
    IF \E k \in DOMAIN names : NameAt(s, j, names[k])
    THEN LET k == CHOOSE k \in DOMAIN names : NameAt(s, j, names[k])
         IN  <<[len |-> Len(names[k]), val |-> k]>>
    ELSE <<>>

\* the two-digit alternatives of a directive's regular expression, then the one-digit one
TwoThenOne(s, j, lo2, hi2, lo1) ==
    (IF DigitsAt(s, j, 2) /\ NumAt(s, j, 2) >= lo2 /\ NumAt(s, j, 2) <= hi2
     THEN <<[len |-> 2, val |-> NumAt(s, j, 2)]>> ELSE <<>>)
    \o
    (IF DigitsAt(s, j, 1) /\ NumAt(s, j, 1) >= lo1
     THEN <<[len |-> 1, val |-> NumAt(s, j, 1)]>> ELSE <<>>)

\* %f is [0-9]{1,6}, greedy; the digits are right-padded with zeros to six
RECURSIVE Pow10(_)
Pow10(k) == IF k = 0 THEN 1 ELSE 10 * Pow10(k - 1)

RECURSIVE FracCands(_, _, _)
FracCands(s, j, len) ==
    IF len = 0 THEN <<>>
    ELSE (IF DigitsAt(s, j, len)
          THEN <<[len |-> len, val |-> NumAt(s, j, len) * Pow10(6 - len)]>> ELSE <<>>)
         \o FracCands(s, j, len - 1)

\* what a directive can match at position j of s, in the order the regular
\* expression tries its alternatives
Candidates(tok, s, j) ==
    CASE tok = "%Y" -> IF DigitsAt(s, j, 4) THEN <<[len |-> 4, val |-> NumAt(s, j, 4)]>> ELSE <<>>
      [] tok = "%m" -> TwoThenOne(s, j, 1, 12, 1)
      [] tok = "%d" -> TwoThenOne(s, j, 1, 31, 1)
                       \o (IF j + 1 <= Len(s) /\ s[j] = " " /\ DigitsAt(s, j + 1, 1)
                              /\ NumAt(s, j + 1, 1) >= 1
                           THEN <<[len |-> 2, val |-> NumAt(s, j + 1, 1)]>> ELSE <<>>)
      [] tok = "%H" -> TwoThenOne(s, j, 0, 23, 0)
      [] tok = "%M" -> TwoThenOne(s, j, 0, 59, 0)
      [] tok = "%S" -> TwoThenOne(s, j, 0, 61, 0)
      [] tok = "%f" -> FracCands(s, j, 6)
      [] tok = "%b" -> NameCands(s, j, MonthAbbr)
      [] tok = "%B" -> NameCands(s, j, MonthFull)
      [] tok = "%a" -> NameCands(s, j, DayAbbr)
      [] OTHER -> <<>>

\* the number of white-space characters of s from position j on
RECURSIVE SpaceRun(_, _)
SpaceRun(s, j) == IF j <= Len(s) /\ IsSpace(s[j]) THEN 1 + SpaceRun(s, j + 1) ELSE 0

NoFields == [Y |-> 1900, m |-> 1, d |-> 1, H |-> 0, M |-> 0, S |-> 0, f |-> 0]

SetField(acc, tok, val) ==
    CASE tok = "%Y" -> [acc EXCEPT !.Y = val]
      [] tok = "%m" -> [acc EXCEPT !.m = val]
      [] tok = "%d" -> [acc EXCEPT !.d = val]
      [] tok = "%b" -> [acc EXCEPT !.m = val]
      [] tok = "%B" -> [acc EXCEPT !.m = val]
      [] tok = "%H" -> [acc EXCEPT !.H = val]
      [] tok = "%M" -> [acc EXCEPT !.M = val]
      [] tok = "%S" -> [acc EXCEPT !.S = val]
      [] tok = "%f" -> [acc EXCEPT !.f = val]
      [] OTHER -> acc

NoMatch == [ok |-> FALSE]

\* re.match of the format's regular expression at the start of s: the first
\* match in the order of the alternatives, backtracking on failure
RECURSIVE MatchFrom(_, _, _, _, _)
RECURSIVE TryCands(_, _, _, _, _, _, _)
RECURSIVE TrySpaces(_, _, _, _, _, _)

MatchFrom(fmt, i, s, j, acc) ==
    IF i > Len(fmt) THEN [ok |-> TRUE, end |-> j, fields |-> acc]
    ELSE IF fmt[i] \in Directives THEN TryCands(fmt, i, s, j, acc, Candidates(fmt[i], s, j), 1)
    ELSE IF IsSpace(fmt[i]) THEN TrySpaces(fmt, i, s, j, acc, SpaceRun(s, j))
    ELSE IF j <= Len(s) /\ Lower(s[j]) = Lower(fmt[i]) THEN MatchFrom(fmt, i + 1, s, j + 1, acc)
    ELSE NoMatch

TryCands(fmt, i, s, j, acc, cands, k) ==
    IF k > Len(cands) THEN NoMatch
    ELSE Bind(MatchFrom(fmt, i + 1, s, j + cands[k].len, SetField(acc, fmt[i], cands[k].val)),
              LAMBDA r : IF r.ok THEN r ELSE TryCands(fmt, i, s, j, acc, cands, k + 1))

TrySpaces(fmt, i, s, j, acc, n) ==
    IF n = 0 THEN NoMatch
    ELSE Bind(MatchFrom(fmt, i + 1, s, j + n, acc),
              LAMBDA r : IF r.ok THEN r ELSE TrySpaces(fmt, i, s, j, acc, n - 1))

\* datetime.strptime(x, fmt): [ok |-> TRUE, val |-> datetime] or
\* [ok |-> FALSE, msg |-> the text of the exception]
strptime(x, fmt) ==
    IF x.t # "str" THEN [ok |-> FALSE, msg |-> "strptime() argument 1 must be str"]
    ELSE Bind(MatchFrom(fmt, 1, x.s, 1, NoFields), LAMBDA r :
             IF ~r.ok THEN [ok |-> FALSE, msg |-> "does not match format"]
             ELSE IF r.end # Len(x.s) + 1 THEN [ok |-> FALSE, msg |-> "unconverted data remains"]
             ELSE IF r.fields.d > DaysInMonth(r.fields.Y, r.fields.m)
                  THEN [ok |-> FALSE, msg |-> "day is out of range for month"]
             ELSE IF r.fields.S > 59 THEN [ok |-> FALSE, msg |-> "second must be in 0..59"]
             ELSE [ok |-> TRUE,
                   val |-> MkDatetime(r.fields.Y, r.fields.m, r.fields.d,
                                      r.fields.H, r.fields.M, r.fields.S, r.fields.f)])


----------------------------------------------------------------------------
(* Python values and the outcome of a call                                 *)

None == [t |-> "None"]

Str(s) == [t |-> "str", s |-> s]

\* a number, given in halves: Half(3) is 1.5
Half(h) == [t |-> "num", h |-> h]

Num(n) == Half(2 * n)

Bool(b) == [t |-> "bool", b |-> b]

List(items) == [t |-> "list", items |-> items]

Array(items) == [t |-> "array", items |-> items]

\* a value of a type none of the functions supports (a dict, say)
Obj == [t |-> "obj"]

\* bool(v), as the if statements take it
Truthy(v) ==
    CASE v.t = "None" -> FALSE
      [] v.t = "bool" -> v.b
      [] v.t = "num"  -> v.h # 0
      [] v.t = "str"  -> v.s # <<>>
      [] v.t \in {"list", "array"} -> v.items # <<>>
      [] OTHER -> TRUE

\* int(x): truncation towards zero
IntOf(v) == IF v.h >= 0 THEN v.h \div 2 ELSE -((-v.h) \div 2)

Ok(v) == [ok |-> TRUE, val |-> v]

\* an exception: its class, the statement that raised it, the parts of its
\* message, and the exception it wraps (None when it wraps none)
Exc(exc, site, msg, cause) == [exc |-> exc, site |-> site, msg |-> msg, cause |-> cause]

Raise(e) == [ok |-> FALSE, err |-> e, exceptions |-> <<>>]

Part(kind, v) == [kind |-> kind, v |-> v]

----------------------------------------------------------------------------
(* Helpers of sc_utils                                                     *)

isnumber(v) == v.t = "num"

isstring(v) == v.t = "str"

promotetolist(obj, keepnone) ==
    CASE obj.t = "list" -> obj.items
      [] obj.t = "None" -> IF keepnone THEN <<None>> ELSE <<>>
      [] OTHER -> <<obj>>

----------------------------------------------------------------------------
(* The shape normaliser and reconstituter                                  *)

_sanitize_iterables(obj, args) ==
    LET is_list  == obj.t = "list" \/ Len(args) > 0
        is_array == obj.t = "array"
        asList   == IF is_array THEN List(obj.items) ELSE obj
    IN  [objs |-> promotetolist(asList, FALSE) \o args, is_list |-> is_list, is_array |-> is_array]

\* _sanitize_output without the test "not is_list": every one-element
\* result is unwrapped
_sanitize_output_unwrap(obj, is_list, is_array) ==
    IF is_array THEN Array(obj)
    ELSE IF Len(obj) = 1 THEN obj[1]
    ELSE List(obj)

_sanitize_output(obj, is_list, is_array) ==
    IF is_array THEN Array(obj)
    ELSE IF ~is_list /\ Len(obj) = 1 THEN obj[1]
    ELSE List(obj)

----------------------------------------------------------------------------
(* The format catalog of readdate: ordered (key, pattern) pairs            *)

formats_to_try ==
    <<[key |-> <<"date">>, fmt |-> Str(<<"%Y", "-", "%m", "-", "%d">>)],
      [key |-> <<"date-slash">>, fmt |-> Str(<<"%Y", "/", "%m", "/", "%d">>)],
      [key |-> <<"date-dot">>, fmt |-> Str(<<"%Y", ".", "%m", ".", "%d">>)],
      [key |-> <<"date-space">>, fmt |-> Str(<<"%Y", " ", "%m", " ", "%d">>)],
      [key |-> <<"date-alpha">>, fmt |-> Str(<<"%Y", "-", "%b", "-", "%d">>)],
      [key |-> <<"date-alpha-rev">>, fmt |-> Str(<<"%d", "-", "%b", "-", "%Y">>)],
      [key |-> <<"date-alpha-sp">>, fmt |-> Str(<<"%d", " ", "%b", " ", "%Y">>)],
      [key |-> <<"date-Alpha">>, fmt |-> Str(<<"%Y", "-", "%B", "-", "%d">>)],
      [key |-> <<"date-Alpha-rev">>, fmt |-> Str(<<"%d", "-", "%B", "-", "%Y">>)],
      [key |-> <<"date-Alpha-sp">>, fmt |-> Str(<<"%d", " ", "%B", " ", "%Y">>)],
      [key |-> <<"date-numeric">>, fmt |-> Str(<<"%Y", "%m", "%d">>)],
      [key |-> <<"datetime">>, fmt |-> Str(<<"%Y", "-", "%m", "-", "%d", " ", "%H", ":", "%M", ":", "%S">>)],
      [key |-> <<"datetime-alpha">>, fmt |-> Str(<<"%Y", "-", "%b", "-", "%d", " ", "%H", ":", "%M", ":", "%S">>)],
      [key |-> <<"default">>, fmt |-> Str(<<"%Y", "-", "%m", "-", "%d", " ", "%H", ":", "%M", ":", "%S", ".", "%f">>)],
      [key |-> <<"ctime">>, fmt |-> Str(<<"%a", " ", "%b", " ", "%d", " ", "%H", ":", "%M", ":", "%S", " ", "%Y">>)]>>

dmy_formats ==
    <<[key |-> <<"date">>, fmt |-> Str(<<"%d", "-", "%m", "-", "%Y">>)],
      [key |-> <<"date-slash">>, fmt |-> Str(<<"%d", "/", "%m", "/", "%Y">>)],
      [key |-> <<"date-dot">>, fmt |-> Str(<<"%d", ".", "%m", ".", "%Y">>)],
      [key |-> <<"date-space">>, fmt |-> Str(<<"%d", " ", "%m", " ", "%Y">>)]>>

mdy_formats ==
    <<[key |-> <<"date">>, fmt |-> Str(<<"%m", "-", "%d", "-", "%Y">>)],
      [key |-> <<"date-slash">>, fmt |-> Str(<<"%m", "/", "%d", "/", "%Y">>)],
      [key |-> <<"date-dot">>, fmt |-> Str(<<"%m", ".", "%d", ".", "%Y">>)],
      [key |-> <<"date-space">>, fmt |-> Str(<<"%m", " ", "%d", " ", "%Y">>)]>>

Lit(s) == Str(s)

ModeDmy == Lit(<<"d", "m", "y">>)
ModeMdy == Lit(<<"m", "d", "y">>)
ModePosix == Lit(<<"p", "o", "s", "i", "x">>)
ModeOrdinal == Lit(<<"o", "r", "d", "i", "n", "a", "l">>)
ModeMatplotlib == Lit(<<"m", "a", "t", "p", "l", "o", "t", "l", "i", "b">>)

\* formats_to_try after "Handle date formats": the catalog the call iterates
Catalog(dateformat) ==
    LET format_list == promotetolist(dateformat, TRUE)
    IN  IF dateformat.t = "None" THEN formats_to_try
        ELSE IF dateformat = ModeDmy THEN dmy_formats
        ELSE IF dateformat = ModeMdy THEN mdy_formats
        ELSE [f \in 1..Len(format_list) |->
                 [key |-> <<"User supplied", f - 1>>, fmt |-> format_list[f]]]

InList(v, list) == \E i \in 1..Len(list) : list[i] = v


----------------------------------------------------------------------------
(* readdate                                                                *)

\* dt.datetime.fromtimestamp(x), the local time zone of the process being UTC
fromtimestamp(x) ==
    LET secs == x.h \div 2
        sod  == secs % 86400
        dd   == FromOrdinal(719163 + (secs \div 86400))
    IN  MkDatetime(dd.y, dd.m, dd.d, sod \div 3600, (sod % 3600) \div 60, sod % 60,
                   (x.h % 2) * 500000)

\* pl.num2date(x): x days after 1970-01-01, as a datetime aware of UTC
num2date(x) ==
    LET dd == FromOrdinal(719163 + (x.h \div 2))
    IN  [MkDatetime(dd.y, dd.m, dd.d, (x.h % 2) * 12, 0, 0, 0) EXCEPT !.tz = "UTC"]

\* the loop over formats_to_try.items() without its break: the last pattern
\* that parses determines dateobj
RECURSIVE TryFormatsNoBreak(_, _, _, _)
TryFormatsNoBreak(datestr, catalog, k, exceptions) ==
    IF k > Len(catalog) THEN [ok |-> FALSE, exceptions |-> exceptions]
    ELSE Bind(strptime(datestr, catalog[k].fmt.s), LAMBDA r :
         Bind(IF r.ok THEN exceptions
              ELSE Append(exceptions, [key |-> catalog[k].key, msg |-> r.msg]), LAMBDA excs :
         Bind(TryFormatsNoBreak(datestr, catalog, k + 1, excs), LAMBDA later :
              IF later.ok \/ ~r.ok THEN later
              ELSE [ok |-> TRUE, val |-> r.val, exceptions |-> excs, key |-> catalog[k].key])))

\* the loop over formats_to_try.items(): the first pattern that parses ends
\* it; every failure before is recorded in exceptions under the pattern's key
RECURSIVE TryFormats(_, _, _, _)
TryFormats(datestr, catalog, k, exceptions) ==
    IF k > Len(catalog) THEN [ok |-> FALSE, exceptions |-> exceptions]
    ELSE Bind(strptime(datestr, catalog[k].fmt.s), LAMBDA r :
             IF r.ok THEN [ok |-> TRUE, val |-> r.val, exceptions |-> exceptions, key |-> catalog[k].key]
             ELSE Bind(Append(exceptions, [key |-> catalog[k].key, msg |-> r.msg]),
                       LAMBDA excs : TryFormats(datestr, catalog, k + 1, excs)))

\* the message of the ValueError raised when no pattern parsed
ExhaustedMsg(datestr, catalog, dateformat) ==
    <<Part("text", "Was unable to convert to a date using the formats"), Part("datestr", datestr)>>
    \o [k \in 1..Len(catalog) |-> Part("pattern", catalog[k].fmt)]
    \o (IF dateformat \notin {ModeDmy, ModeMdy}
        THEN <<Part("text", "Note: use dateformat dmy or mdy")>> ELSE <<>>)

\* one turn of the loop with a numeric branch that falls back to the POSIX
\* reading instead of raising when the mode names no numeric reading
readdateElemLenient(datestr, catalog, format_list, dateformat) ==
    IF datestr.t = "datetime" THEN Ok(datestr)
    ELSE IF isnumber(datestr)
    THEN IF InList(ModeOrdinal, format_list) \/ InList(ModeMatplotlib, format_list)
         THEN Ok(num2date(datestr))
         ELSE Ok(fromtimestamp(datestr))
    ELSE Bind(TryFormats(datestr, catalog, 1, <<>>), LAMBDA tries :
             IF tries.ok THEN Ok(tries.val)
             ELSE [ok |-> FALSE,
                   err |-> Exc("ValueError", "readdate:229",
                               ExhaustedMsg(datestr, catalog, dateformat), None),
                   exceptions |-> tries.exceptions])

\* one turn of the loop "for datestr in datestrs"
readdateElem(datestr, catalog, format_list, dateformat) ==
    IF datestr.t = "datetime" THEN Ok(datestr)
    ELSE IF isnumber(datestr)
    THEN IF InList(ModePosix, format_list) \/ InList(None, format_list)
         THEN Ok(fromtimestamp(datestr))
         ELSE IF InList(ModeOrdinal, format_list) \/ InList(ModeMatplotlib, format_list)
         THEN Ok(num2date(datestr))
         ELSE Raise(Exc("ValueError", "readdate:216",
                        <<Part("text", "Could not convert numeric date; must be posix or ordinal"),
                          Part("datestr", datestr)>>
                        \o [k \in 1..Len(format_list) |-> Part("format", format_list[k])],
                        None))
    ELSE Bind(TryFormats(datestr, catalog, 1, <<>>), LAMBDA tries :
             IF tries.ok THEN Ok(tries.val)
             ELSE [ok |-> FALSE,
                   err |-> Exc("ValueError", "readdate:229",
                               ExhaustedMsg(datestr, catalog, dateformat), None),
                   exceptions |-> tries.exceptions])

RECURSIVE readdateLoop(_, _, _, _, _, _)
readdateLoop(datestrs, i, dateobjs, catalog, format_list, dateformat) ==
    IF i > Len(datestrs) THEN Ok(dateobjs)
    ELSE Bind(readdateElem(datestrs[i], catalog, format_list, dateformat), LAMBDA r :
             IF r.ok
             THEN Bind(Append(dateobjs, r.val), LAMBDA objs :
                       readdateLoop(datestrs, i + 1, objs, catalog, format_list, dateformat))
             ELSE r)

readdate(datestr, args, dateformat) ==
    Bind(promotetolist(dateformat, TRUE), LAMBDA format_list :
    Bind(Catalog(dateformat), LAMBDA catalog :
    Bind(_sanitize_iterables(datestr, args), LAMBDA san :
    Bind(readdateLoop(san.objs, 1, <<>>, catalog, format_list, dateformat), LAMBDA r :
         IF r.ok THEN Ok(_sanitize_output(r.val, san.is_list, san.is_array)) ELSE r))))

----------------------------------------------------------------------------
(* date                                                                    *)

IsoFormat == Str(<<"%Y", "-", "%m", "-", "%d">>)

\* the keyword arguments of date(), at their defaults
DateDefaults == [start_date |-> None, readformat |-> None, outformat |-> None,
                 as_date |-> Bool(TRUE), dateformat |-> None]

\* r.date() on the outcome r of readdate
DotDate(r0) ==
    Bind(r0, LAMBDA r :
         IF ~r.ok THEN r
         ELSE IF r.val.t = "datetime" THEN Ok(DateOf(r.val))
         ELSE Raise(Exc("AttributeError", "date()", <<>>, None)))

\* date(start_date) + dt.timedelta(days=int(d) + 1): the offset counted
\* from one instead of from zero
PlusDaysFromOne(r0, n) ==
    Bind(r0, LAMBDA r :
         IF ~r.ok THEN r
         ELSE IF r.val.t = "date" THEN Ok(AddDays(r.val, n + 1))
         ELSE Raise(Exc("TypeError", "+ timedelta", <<>>, None)))

\* r + dt.timedelta(days=n) on the outcome r of date(start_date)
PlusDays(r0, n) ==
    Bind(r0, LAMBDA r :
         IF ~r.ok THEN r
         ELSE IF r.val.t = "date" THEN Ok(AddDays(r.val, n))
         ELSE Raise(Exc("TypeError", "+ timedelta", <<>>, None)))

RECURSIVE date(_, _, _)
RECURSIVE dateLoop(_, _, _, _, _)
RECURSIVE dateElem(_, _, _)

\* the body of the try block for one element d that is not None
dateElem(d, kw, outformat) ==
    Bind(   IF d.t = "date" THEN Ok(d)
            ELSE IF d.t = "datetime" THEN Ok(DateOf(d))
            ELSE IF isstring(d) THEN DotDate(readdate(d, <<>>, kw.readformat))
            ELSE IF isnumber(d)
            THEN IF kw.readformat.t # "None" THEN DotDate(readdate(d, <<>>, kw.readformat))
                 ELSE IF kw.start_date.t = "None"
                 THEN Raise(Exc("ValueError", "date:300",
                                <<Part("text", "you must specify a read format or supply start_date")>>, None))
                 ELSE PlusDays(date(kw.start_date, <<>>, DateDefaults), IntOf(d))
            ELSE Raise(Exc("TypeError", "date:304", <<Part("text", "Cannot interpret as a date")>>, None)),
         LAMBDA conv :
            IF ~conv.ok
            THEN Raise(Exc("ValueError", "date:311", <<Part("text", "Conversion to a date failed")>>, conv.err))
            ELSE IF Truthy(kw.as_date) THEN conv
            ELSE IF outformat.t # "str"
            THEN Raise(Exc("ValueError", "date:311", <<Part("text", "Conversion to a date failed")>>,
                           Exc("TypeError", "strftime", <<>>, None)))
            ELSE Ok(Str(strftime(conv.val, outformat.s))))

dateLoop(obj, i, dates, kw, outformat) ==
    IF i > Len(obj) THEN Ok(dates)
    ELSE IF obj[i].t = "None" THEN dateLoop(obj, i + 1, Append(dates, obj[i]), kw, outformat)
    ELSE Bind(dateElem(obj[i], kw, outformat), LAMBDA r :
             IF r.ok
             THEN Bind(Append(dates, r.val), LAMBDA ds : dateLoop(obj, i + 1, ds, kw, outformat))
             ELSE r)

date(obj, args, kw) ==
    IF obj.t = "None" THEN Ok(None)
    ELSE Bind(IF kw.dateformat.t # "None" THEN kw.dateformat
              ELSE IF kw.outformat.t = "None" THEN IsoFormat ELSE kw.outformat, LAMBDA outformat :
         Bind(_sanitize_iterables(obj, args), LAMBDA san :
         Bind(dateLoop(san.objs, 1, <<>>, kw, outformat), LAMBDA r :
              IF r.ok THEN Ok(_sanitize_output(r.val, san.is_list, san.is_array)) ELSE r)))

----------------------------------------------------------------------------
(* day                                                                     *)

\* str(n) of a natural number n
RECURSIVE DecimalStr(_)
DecimalStr(n) == IF n < 10 THEN <<DigitChr(n)>> ELSE Append(DecimalStr(n \div 10), DigitChr(n % 10))

\* f'{d.year}-01-01'
JanFirstStr(d) == Str(DecimalStr(d.y) \o <<"-", "0", "1", "-", "0", "1">>)

DayFailed(e) == Raise(Exc("ValueError", "day:373", <<Part("text", "Could not interpret as a date")>>, e))

\* the loop "for d in obj"; start_date is the function's argument variable,
\* which the loop body assigns
RECURSIVE dayLoop(_, _, _, _)
dayLoop(obj, i, days, start_date) ==
    IF i > Len(obj) THEN Ok(days)
    ELSE Bind(obj[i], LAMBDA d :
             IF d.t = "None" THEN dayLoop(obj, i + 1, Append(days, d), start_date)
             ELSE IF isnumber(d) THEN dayLoop(obj, i + 1, Append(days, Num(IntOf(d))), start_date)
             ELSE Bind(IF isstring(d) THEN DotDate(readdate(d, <<>>, None))
                       ELSE IF d.t = "datetime" THEN Ok(DateOf(d))
                       ELSE Ok(d), LAMBDA d1 :
                  Bind(IF ~d1.ok THEN d1
                       ELSE IF Truthy(start_date) THEN date(start_date, <<>>, DateDefaults)
                       ELSE IF d1.val.t = "date" THEN date(JanFirstStr(d1.val), <<>>, DateDefaults)
                       ELSE Raise(Exc("AttributeError", "year", <<>>, None)), LAMBDA sd :
                       IF ~sd.ok THEN DayFailed(sd.err)
                       ELSE IF d1.val.t # "date" \/ sd.val.t # "date"
                       THEN DayFailed(Exc("TypeError", "d - start_date", <<>>, None))
                       ELSE Bind(Append(days, Num(DaysBetween(d1.val, sd.val))), LAMBDA ds :
                                 dayLoop(obj, i + 1, ds, sd.val)))))

day(obj, args, start_date) ==
    IF obj.t = "None" THEN Ok(None)
    ELSE Bind(_sanitize_iterables(obj, args), LAMBDA san :
         Bind(dayLoop(san.objs, 1, <<>>, start_date), LAMBDA r :
              IF r.ok THEN Ok(_sanitize_output(r.val, san.is_list, san.is_array)) ELSE r))


----------------------------------------------------------------------------
(* daterange and datedelta                                                 *)

\* daterange without the statement "if inclusive: end_day += 1"
daterangeOpen(start_date, end_date, inclusive, as_date, dateformat) ==
    Bind(day(end_date, <<>>, start_date), LAMBDA r :
         IF ~r.ok THEN r
         ELSE IF r.val.t # "num" THEN Raise(Exc("TypeError", "daterange:428", <<>>, None))
         ELSE Bind([k \in 1..IntOf(r.val) |-> Num(k - 1)], LAMBDA days :
                   date(List(days), <<>>,
                        [DateDefaults EXCEPT !.start_date = start_date, !.as_date = as_date,
                                             !.dateformat = dateformat])))

daterange(start_date, end_date, inclusive, as_date, dateformat) ==
    Bind(day(end_date, <<>>, start_date), LAMBDA r :
         IF ~r.ok THEN r
         ELSE IF r.val.t # "num" THEN Raise(Exc("TypeError", "daterange:428", <<>>, None))
         ELSE Bind(IntOf(r.val) + (IF Truthy(inclusive) THEN 1 ELSE 0), LAMBDA end_day :
              Bind([k \in 1..end_day |-> Num(k - 1)], LAMBDA days :
                   date(List(days), <<>>,
                        [DateDefaults EXCEPT !.start_date = start_date, !.as_date = as_date,
                                             !.dateformat = dateformat]))))

\* dateobj + dateutil.relativedelta.relativedelta(days, months, years, weeks)
\* for -12 < months < 12: the year and the month are shifted, the day is
\* clamped to the length of the month, and then the days are added
relativedelta(dateobj, days, months, years, weeks) ==
    LET m0   == dateobj.m + months
        year == dateobj.y + years + (IF m0 > 12 THEN 1 ELSE IF m0 < 1 THEN -1 ELSE 0)
        mon  == IF m0 > 12 THEN m0 - 12 ELSE IF m0 < 1 THEN m0 + 12 ELSE m0
        dom  == IF dateobj.d > DaysInMonth(year, mon) THEN DaysInMonth(year, mon) ELSE dateobj.d
    IN  Bind([dateobj EXCEPT !.y = year, !.m = mon, !.d = dom],
             LAMBDA shifted : AddDays(shifted, days + 7 * weeks))

datedelta(datestr, days, months, years, weeks, as_date) ==
    LET as_date1 == IF as_date.t = "None" /\ datestr.t = "str" THEN Bool(FALSE) ELSE as_date
    IN  Bind(readdate(datestr, <<>>, None), LAMBDA r :
             IF ~r.ok THEN r
             ELSE IF r.val.t # "datetime" THEN Raise(Exc("TypeError", "datedelta:456", <<>>, None))
             ELSE Bind(relativedelta(r.val, days, months, years, weeks), LAMBDA newdate :
                       date(newdate, <<>>, [DateDefaults EXCEPT !.as_date = as_date1])))

----------------------------------------------------------------------------
(* elapsedtimestr                                                          *)

\* dt.timedelta(days, seconds, microseconds), normalised as the library
\* keeps it: 0 <= seconds < 86400 and 0 <= microseconds < 1000000
timedelta(days, seconds, microseconds) ==
    LET us == microseconds % 1000000
        s0 == seconds + ((microseconds - us) \div 1000000)
        s  == s0 % 86400
    IN  [days |-> days + ((s0 - s) \div 86400), seconds |-> s, microseconds |-> us]

SecOfDay(v) == v.H * 3600 + v.M * 60 + v.S

\* a - b for two naive datetimes
DatetimeMinus(a, b) ==
    timedelta(ToOrdinal(a) - ToOrdinal(b), SecOfDay(a) - SecOfDay(b), a.f - b.f)

\* a <= b for two timedeltas
DeltaLessEq(a, b) ==
    \/ a.days < b.days
    \/ a.days = b.days /\ a.seconds < b.seconds
    \/ a.days = b.days /\ a.seconds = b.seconds /\ a.microseconds <= b.microseconds

\* a < b for two timedeltas
DeltaLess(a, b) ==
    \/ a.days < b.days
    \/ a.days = b.days /\ a.seconds < b.seconds
    \/ a.days = b.days /\ a.seconds = b.seconds /\ a.microseconds < b.microseconds

\* a > b for two naive datetimes
DatetimeAfter(a, b) ==
    \/ ToOrdinal(a) > ToOrdinal(b)
    \/ ToOrdinal(a) = ToOrdinal(b) /\ SecOfDay(a) > SecOfDay(b)
    \/ ToOrdinal(a) = ToOrdinal(b) /\ SecOfDay(a) = SecOfDay(b) /\ a.f > b.f

JustNow == <<"j", "u", "s", "t", " ", "n", "o", "w">>
SecsAgo == <<" ", "s", "e", "c", "s", " ", "a", "g", "o">>
AMinuteAgo == <<"a", " ", "m", "i", "n", "u", "t", "e", " ", "a", "g", "o">>
MinsAgo == <<" ", "m", "i", "n", "s", " ", "a", "g", "o">>
OneHourAgo == <<"1", " ", "h", "o", "u", "r", " ", "a", "g", "o">>
HoursAgo == <<" ", "h", "o", "u", "r", "s", " ", "a", "g", "o">>
Yesterday == <<"y", "e", "s", "t", "e", "r", "d", "a", "y">>
DaysAgo == <<" ", "d", "a", "y", "s", " ", "a", "g", "o">>

\* the nested function print_date
print_date(date_, includeyear, shortmonths) ==
    LET month_token == IF Truthy(shortmonths) THEN "%b" ELSE "%B"
        date_str    == IF includeyear
                       THEN strftime(date_, <<"%d", " ", month_token, " ", "%Y">>)
                       ELSE strftime(date_, <<"%d", " ", month_token>>)
    IN  IF date_str[1] = "0" THEN Tail(date_str) ELSE date_str

\* the ladder of lines 549-594 for a datetime pasttime; now_time is what
\* dt.datetime.now() returned
TimeStr(pasttime, maxdays, minseconds, shortmonths, now_time) ==
    IF DatetimeAfter(pasttime, now_time)
    THEN print_date(pasttime, pasttime.y # now_time.y, shortmonths)
    ELSE Bind(DatetimeMinus(now_time, pasttime), LAMBDA elapsed_time :
         IF DeltaLess(elapsed_time, timedelta(0, 60, 0))
         THEN IF elapsed_time.seconds <= minseconds THEN JustNow
              ELSE DecimalStr(elapsed_time.seconds) \o SecsAgo
         ELSE IF DeltaLess(elapsed_time, timedelta(0, 60 * 60, 0))
         THEN IF elapsed_time.seconds \div 60 = 1 THEN AMinuteAgo
              ELSE DecimalStr(elapsed_time.seconds \div 60) \o MinsAgo
         ELSE IF DeltaLess(elapsed_time, timedelta(0, 60 * 60 * 24 - 1, 0))
         THEN IF elapsed_time.seconds \div (60 * 60) = 1 THEN OneHourAgo
              ELSE DecimalStr(elapsed_time.seconds \div (60 * 60)) \o HoursAgo
         ELSE IF DeltaLess(elapsed_time, timedelta(maxdays, 0, 0))
         THEN IF elapsed_time.days = 1 THEN Yesterday
              ELSE DecimalStr(elapsed_time.days) \o DaysAgo
         ELSE print_date(pasttime, pasttime.y # now_time.y, shortmonths))

elapsedtimestr(pasttime, maxdays, minseconds, shortmonths, now_time) ==
    IF pasttime.t = "str"
    THEN Bind(readdate(pasttime, <<>>, None), LAMBDA r :
              IF r.ok THEN Ok(Str(TimeStr(r.val, maxdays, minseconds, shortmonths, now_time)))
              ELSE Raise(Exc("ValueError", "elapsedtimestr:541",
                             <<Part("text", "User supplied string is not in a readable format")>>,
                             r.err)))
    ELSE IF pasttime.t = "datetime"
    THEN Ok(Str(TimeStr(pasttime, maxdays, minseconds, shortmonths, now_time)))
    ELSE Raise(Exc("TypeError", "elapsedtimestr:546",
                   <<Part("text", "neither a datetime object nor an ISO 8601 string")>>, None))

----------------------------------------------------------------------------
(* tic, toc, toctic and Timer.  The global _tictime is Unset until the     *)
(* first assignment creates the name; clock is what time.time() returns.  *)
(* A call of toc is the record of its arguments; Missing stands for an     *)
(* argument the call does not pass.  sigfigs and filename only shape and   *)
(* route the printed text and are left out.                                *)

Unset == [t |-> "unset"]

Missing == [t |-> "missing"]

\* the arguments of toc at their defaults; baselabel has none
TocDefaults == [start |-> None, output |-> Bool(FALSE), label |-> None, reset |-> Bool(FALSE),
                baselabel |-> Missing]

\* tic(): the outcome and the new value of the global
tic(clock_) == [tictime |-> Num(clock_), ret |-> Ok(Num(clock_)), printed |-> <<>>]

\* the text toc prints
logmessage(label, elapsed) ==
    [base |-> IF label.t = "None" \/ label = Str(<<>>) THEN "Elapsed time: " ELSE "Elapsed time for label: ",
     label |-> label, elapsed |-> elapsed]

\* toc(**args) with the global at tictime.  The signature of line 620 names
\* baselabel last and without a default: a call that does not pass it binds
\* no value to it and fails before the body runs.
toc(args, tictime, clock_) ==
    IF args.baselabel = Missing
    THEN [tictime |-> tictime, printed |-> <<>>,
          ret |-> Raise(Exc("TypeError", "toc:620",
                            <<Part("text", "missing required argument baselabel")>>, None))]
    ELSE LET start   == IF args.start.t # "None" THEN args.start
                        ELSE IF tictime = Unset THEN Num(0) ELSE tictime
             elapsed == Half(2 * clock_ - start.h)
         IN  [tictime |-> IF Truthy(args.reset) THEN Num(clock_) ELSE tictime,
              printed |-> IF Truthy(args.output) THEN <<>> ELSE <<logmessage(args.label, elapsed)>>,
              ret     |-> IF Truthy(args.output) THEN Ok(elapsed) ELSE Ok(None)]

\* toctic(returntic, returntoc, **kwargs): kwargs are the arguments of toc
toctic(returntic, returntoc, kwargs, tictime, clock_) ==
    Bind(toc(kwargs, tictime, clock_), LAMBDA tocout :
         IF ~tocout.ret.ok THEN tocout
         ELSE Bind(tic(clock_), LAMBDA ticout :
                   [tictime |-> ticout.tictime, printed |-> tocout.printed,
                    ret |-> IF Truthy(returntic) THEN ticout.ret
                            ELSE IF Truthy(returntoc) THEN tocout.ret
                            ELSE Ok(None)]))

\* Timer.tic(): self._start = tic()
Timer_tic(self, clock_) == [self |-> [self EXCEPT !._start = Num(clock_)], tictime |-> Num(clock_)]

\* Timer(label, **kwargs)
Timer_init(label, kwargs, clock_) ==
    Timer_tic([_start |-> None, kwargs |-> [kwargs EXCEPT !.label = label]], clock_)

\* Timer.toc(): toc(self._start, **self.kwargs)
Timer_toc(self, tictime, clock_) ==
    toc([self.kwargs EXCEPT !.start = self._start], tictime, clock_)

----------------------------------------------------------------------------
(* The inputs of the calls                                                 *)

\* the longest sequence of elements one call is given
MaxLen == 2

\* the largest shift, in days, months or weeks, of a datedelta call
MaxShift == 2

\* 04-03-2020: parses under no pattern of the default chain, as 4 March
\* under dmy and as 3 April under mdy
AmbiguousStr == Str(<<"0", "4", "-", "0", "3", "-", "2", "0", "2", "0">>)

\* 2020-May-01: "May" is both the abbreviated and the full name of the month
MayStr == Str(strftime(MkDate(2020, 5, 1), <<"%Y", "-", "%b", "-", "%d">>))

IsoStr(dd) == Str(strftime(dd, IsoFormat.s))

\* the elements a sequence is made of
Elems == {None, IsoStr(MkDate(2020, 3, 1)), AmbiguousStr, MayStr, Half(11),
          MkDate(2019, 12, 30), MkDatetime(2021, 1, 2, 14, 35, 21, 0), Obj}

RECURSIVE SeqsOfLen(_, _)
SeqsOfLen(S, n) == IF n = 0 THEN {<<>>}
                   ELSE {Append(s, e) : s \in SeqsOfLen(S, n - 1), e \in S}

SeqsUpTo(S, n) == UNION {SeqsOfLen(S, k) : k \in 0..n}

\* (obj, *args): a scalar, None, a list or an array, and the extra positional values
Inputs ==
    {[obj |-> e, args |-> a] : e \in Elems, a \in SeqsUpTo(Elems, MaxLen - 1)}
    \cup {[obj |-> List(s), args |-> <<>>] : s \in SeqsUpTo(Elems, MaxLen)}
    \cup {[obj |-> List(<<e>>), args |-> a] : e \in Elems, a \in SeqsOfLen(Elems, MaxLen - 1)}
    \cup {[obj |-> Array(s), args |-> <<>>] : s \in SeqsUpTo(Elems, MaxLen)}

DmyPattern == Str(<<"%d", "-", "%m", "-", "%Y">>)
MdyPattern == Str(<<"%m", "-", "%d", "-", "%Y">>)
Bogus == Lit(<<"b", "o", "g", "u", "s">>)

\* the dateformat arguments of readdate
ReadFormats == {None, ModeDmy, ModeMdy, ModePosix, ModeOrdinal, ModeMatplotlib, Bogus, IsoFormat,
                List(<<DmyPattern, MdyPattern>>), List(<<MdyPattern, DmyPattern>>),
                List(<<IsoFormat, ModePosix>>)}

\* dates written in several layouts, and date and datetime objects
SampleDates == {MkDate(2019, 12, 30), MkDate(2020, 1, 2), MkDate(2020, 2, 27), MkDate(2020, 3, 1)}

Layouts == {IsoFormat.s, <<"%Y", "/", "%m", "/", "%d">>, <<"%d", " ", "%B", " ", "%Y">>,
            <<"%Y", "%m", "%d">>}

AtNoon(dd) == MkDatetime(dd.y, dd.m, dd.d, 12, 30, 0, 0)

\* one calendar date as the callers may hand it over
Renderings(dd) == {Str(strftime(dd, lay)) : lay \in Layouts} \cup {dd, AtNoon(dd)}

DateLikes == UNION {Renderings(dd) : dd \in SampleDates}

\* the longest range of days asked of daterange
MaxSpan == 3

StartDates == {None, IsoStr(MkDate(2020, 2, 27)), MkDate(2020, 1, 2)}

Flags == {Bool(TRUE), Bool(FALSE)}

\* the largest maxdays argument of elapsedtimestr
MaxDays == 3

\* the instants dt.datetime.now() returns: one at midday, one shortly after
\* the start of a year
Nows == {MkDatetime(2020, 3, 1, 12, 0, 0, 0), MkDatetime(2020, 1, 2, 0, 0, 30, 0)}

\* how long before now the past time lies, in seconds (negative: after now)
Lags == {-86400, -1, 0, 1, 9, 10, 11, 59, 60, 61, 119, 120, 3599, 3600, 3601, 7199, 7200,
         86398, 86399, 86400, 86401}
        \cup {k * 86400 - 1 : k \in 2..(MaxDays + 1)}
        \cup {k * 86400 : k \in 2..(MaxDays + 1)}

\* the datetime e seconds before now_time
BackBy(now_time, e) ==
    LET total == SecOfDay(now_time) - e
        sod   == total % 86400
        dd    == FromOrdinal(ToOrdinal(now_time) + ((total - sod) \div 86400))
    IN  MkDatetime(dd.y, dd.m, dd.d, sod \div 3600, (sod % 3600) \div 60, sod % 60, now_time.f)

\* a datetime as the callers of elapsedtimestr may hand it over
PastForms(ts) ==
    {ts, Str(strftime(ts, <<"%Y", "-", "%m", "-", "%d", " ", "%H", ":", "%M", ":", "%S">>))}

----------------------------------------------------------------------------
(* The caller: one action per function of the module.  call is the last    *)
(* call made, ret its outcome; prev is the call whose result was passed on *)
(* to the last call, when there is one.  The functions keep no state       *)
(* between calls, so the caller starts each experiment afresh (Forget).    *)

VARIABLES call, ret, prev

\* The stopwatch: the module global _tictime, the clock time.time() reads,
\* for each caller the instant its last tic returned (own) and whether it
\* stands between the two statements of tic (pc), the last finished call
\* (done), the Timer object and its with-block (timer), and the instant of
\* the most recent call of tic, of toctic or of toc with reset (since).
VARIABLES _tictime, clock, own, pc, done, timer, since

dvars == <<call, ret, prev>>

wvars == <<_tictime, clock, own, pc, done, timer, since>>

vars == <<call, ret, prev, _tictime, clock, own, pc, done, timer, since>>

NoCall == [fn |-> "none"]

NoPrev == [call |-> NoCall, ret |-> Ok(None)]

Callers == {"a", "b"}

NoDone == [fn |-> "none"]

NoTimer == [phase |-> "none"]

Init ==
    /\ call = NoCall /\ ret = Ok(None) /\ prev = NoPrev
    /\ _tictime = Unset /\ clock = 1
    /\ own = [c \in Callers |-> None] /\ pc = [c \in Callers |-> "idle"]
    /\ done = NoDone /\ timer = NoTimer /\ since = Unset

Readdate ==
    /\ call = NoCall
    /\ \E in \in Inputs, dateformat \in ReadFormats :
        /\ call' = [fn |-> "readdate", obj |-> in.obj, args |-> in.args, dateformat |-> dateformat]
        /\ ret' = readdate(in.obj, in.args, dateformat)
        /\ prev' = NoPrev
    /\ UNCHANGED wvars

Date ==
    /\ call = NoCall
    /\ \E in \in Inputs, start_date \in StartDates, readformat \in {None, ModePosix, ModeDmy},
       as_date \in Flags :
        LET kw == [DateDefaults EXCEPT !.start_date = start_date, !.readformat = readformat,
                                       !.as_date = as_date]
        IN  /\ call' = [fn |-> "date", obj |-> in.obj, args |-> in.args, kw |-> kw]
            /\ ret' = date(in.obj, in.args, kw)
            /\ prev' = NoPrev
    /\ UNCHANGED wvars

Day ==
    /\ call = NoCall
    /\ \E in \in Inputs, start_date \in StartDates :
        /\ call' = [fn |-> "day", obj |-> in.obj, args |-> in.args, start_date |-> start_date]
        /\ ret' = day(in.obj, in.args, start_date)
        /\ prev' = NoPrev
    /\ UNCHANGED wvars

Daterange ==
    /\ call = NoCall
    /\ \E dd \in SampleDates, span \in (-1)..MaxSpan, inclusive \in Flags, as_date \in Flags :
       \E a \in Renderings(dd), b \in Renderings(AddDays(dd, span)) :
        /\ call' = [fn |-> "daterange", start_date |-> a, end_date |-> b,
                    inclusive |-> inclusive, as_date |-> as_date]
        /\ ret' = daterange(a, b, inclusive, as_date, None)
        /\ prev' = NoPrev
    /\ UNCHANGED wvars

Datedelta ==
    /\ call = NoCall
    /\ \E x \in DateLikes, days \in (-MaxShift)..MaxShift, months \in {-1, 0, 1},
       as_date \in Flags \cup {None} :
        /\ call' = [fn |-> "datedelta", datestr |-> x, days |-> days, months |-> months,
                    as_date |-> as_date]
        /\ ret' = datedelta(x, days, months, 0, 0, as_date)
        /\ prev' = NoPrev
    /\ UNCHANGED wvars

\* datedelta(datedelta(x, days=n), days=-n): the result of the last call is shifted back
DatedeltaBack ==
    /\ call.fn = "datedelta" /\ prev = NoPrev /\ ret.ok /\ call.months = 0
    /\ call' = [fn |-> "datedelta", datestr |-> ret.val, days |-> -call.days, months |-> 0,
                as_date |-> call.as_date]
    /\ ret' = datedelta(ret.val, -call.days, 0, 0, 0, call.as_date)
    /\ prev' = [call |-> call, ret |-> ret]
    /\ UNCHANGED wvars

\* day(date(x, start_date=s), start_date=s): the result of the last call to date is passed to day
DayOfDate ==
    /\ call.fn = "date" /\ prev = NoPrev /\ ret.ok
    /\ call' = [fn |-> "day", obj |-> ret.val, args |-> <<>>, start_date |-> call.kw.start_date]
    /\ ret' = day(ret.val, <<>>, call.kw.start_date)
    /\ prev' = [call |-> call, ret |-> ret]
    /\ UNCHANGED wvars

Elapsedtimestr ==
    /\ call = NoCall
    /\ \E now_time \in Nows, lag \in Lags, maxdays \in 1..MaxDays, minseconds \in {0, 10},
          shortmonths \in Flags :
       \E pasttime \in PastForms(BackBy(now_time, lag)) :
        /\ call' = [fn |-> "elapsedtimestr", pasttime |-> pasttime, maxdays |-> maxdays,
                    minseconds |-> minseconds, shortmonths |-> shortmonths,
                    now_time |-> now_time, lag |-> lag]
        /\ ret' = elapsedtimestr(pasttime, maxdays, minseconds, shortmonths, now_time)
        /\ prev' = NoPrev
    /\ UNCHANGED wvars

\* the caller drops the result
Forget ==
    /\ call # NoCall /\ call' = NoCall /\ ret' = Ok(None) /\ prev' = NoPrev
    /\ UNCHANGED wvars

Next ==
    \/ Readdate \/ Date \/ Day \/ Daterange \/ Datedelta \/ DatedeltaBack \/ DayOfDate
    \/ Elapsedtimestr \/ Forget

Spec == Init /\ [][Next]_vars

----------------------------------------------------------------------------
(* The stopwatch as a state machine.  Callers share the global; nothing    *)
(* locks it.  tic is two statements, the store of line 615 and the read    *)
(* of line 616, and another caller may run between them.  toc reads the    *)
(* global once and writes it at most once, after its single clock read.    *)

MaxClock == 3

BaseLabels == {Missing, Str(<<"E">>)}

\* the error the body of a with-block raises
BlockError == Exc("RuntimeError", "block", <<>>, None)

\* time passes
Tick ==
    /\ clock < MaxClock
    /\ clock' = clock + 1
    /\ UNCHANGED <<_tictime, own, pc, done, timer, since>>
    /\ UNCHANGED dvars

\* line 615: _tictime = time.time()
TicStore(c) ==
    /\ pc[c] = "idle"
    /\ _tictime' = tic(clock).tictime
    /\ pc' = [pc EXCEPT ![c] = "tic616"]
    /\ since' = Num(clock)
    /\ UNCHANGED <<clock, own, done, timer>>
    /\ UNCHANGED dvars

\* line 616: return _tictime
TicReturn(c) ==
    /\ pc[c] = "tic616"
    /\ pc' = [pc EXCEPT ![c] = "idle"]
    /\ own' = [own EXCEPT ![c] = _tictime]
    /\ done' = [fn |-> "tic", who |-> c, ret |-> Ok(_tictime), printed |-> <<>>,
                before |-> _tictime, after |-> _tictime, at |-> clock]
    /\ UNCHANGED <<_tictime, clock, timer, since>>
    /\ UNCHANGED dvars

\* toc(...), either on the global or on the instant the caller's tic returned
Toc(c) ==
    /\ pc[c] = "idle"
    /\ \E start \in {None, own[c]}, output \in Flags, reset \in Flags, baselabel \in BaseLabels :
        LET args == [TocDefaults EXCEPT !.start = start, !.output = output, !.reset = reset,
                                        !.baselabel = baselabel]
        IN  LET r == toc(args, _tictime, clock) IN
                 /\ _tictime' = r.tictime
                 /\ done' = [fn |-> "toc", who |-> c, args |-> args, ret |-> r.ret,
                             printed |-> r.printed, before |-> _tictime, after |-> r.tictime,
                             at |-> clock]
                 /\ since' = IF Truthy(reset) THEN Num(clock) ELSE since
    /\ UNCHANGED <<clock, own, pc, timer>>
    /\ UNCHANGED dvars

\* toctic(returntic, returntoc, baselabel=...)
Toctic(c) ==
    /\ pc[c] = "idle"
    /\ \E returntic \in Flags, returntoc \in Flags, output \in Flags, baselabel \in BaseLabels :
        LET kwargs == [TocDefaults EXCEPT !.output = output, !.baselabel = baselabel]
        IN  LET r == toctic(returntic, returntoc, kwargs, _tictime, clock) IN
                 /\ _tictime' = r.tictime
                 /\ done' = [fn |-> "toctic", who |-> c, returntic |-> returntic,
                             returntoc |-> returntoc, args |-> kwargs, ret |-> r.ret,
                             printed |-> r.printed, before |-> _tictime, after |-> r.tictime,
                             at |-> clock]
                 /\ since' = Num(clock)
    /\ UNCHANGED <<clock, own, pc, timer>>
    /\ UNCHANGED dvars

\* with Timer(baselabel=...): the object is made
TimerNew ==
    /\ timer = NoTimer
    /\ \E baselabel \in BaseLabels :
        LET r == Timer_init(None, [TocDefaults EXCEPT !.baselabel = baselabel], clock) IN
             /\ timer' = [phase |-> "made", self |-> r.self]
             /\ _tictime' = r.tictime
    /\ since' = Num(clock)
    /\ UNCHANGED <<clock, own, pc, done>>
    /\ UNCHANGED dvars

\* __enter__: self.tic(); the block starts
TimerEnter ==
    /\ timer.phase = "made"
    /\ LET r == Timer_tic(timer.self, clock) IN
            /\ timer' = [phase |-> "inside", self |-> r.self, entered |-> clock, failed |-> FALSE]
            /\ _tictime' = r.tictime
    /\ since' = Num(clock)
    /\ UNCHANGED <<clock, own, pc, done>>
    /\ UNCHANGED dvars

\* the body of the block raises
TimerBlockRaises ==
    /\ timer.phase = "inside" /\ ~timer.failed
    /\ timer' = [timer EXCEPT !.failed = TRUE]
    /\ UNCHANGED <<_tictime, clock, own, pc, done, since>>
    /\ UNCHANGED dvars

\* __exit__: self.toc(), which returns None, so the with statement re-raises
\* the error of the block, unless toc itself raised
TimerExit ==
    /\ timer.phase = "inside"
    /\ LET r == Timer_toc(timer.self, _tictime, clock) IN
            /\ timer' = [phase |-> "left", self |-> timer.self, entered |-> timer.entered,
                         failed |-> timer.failed, at |-> clock, printed |-> r.printed,
                         raised |-> IF ~r.ret.ok THEN r.ret.err
                                    ELSE IF timer.failed THEN BlockError ELSE None]
            /\ _tictime' = r.tictime
    /\ UNCHANGED <<clock, own, pc, done, since>>
    /\ UNCHANGED dvars

\* the Timer is dropped
TimerDrop ==
    /\ timer.phase = "left"
    /\ timer' = NoTimer
    /\ UNCHANGED <<_tictime, clock, own, pc, done, since>>
    /\ UNCHANGED dvars

\* tic() called inside the block
BlockTic ==
    /\ timer.phase = "inside"
    /\ _tictime' = tic(clock).tictime
    /\ since' = Num(clock)
    /\ UNCHANGED <<clock, own, pc, done, timer>>
    /\ UNCHANGED dvars

\* toc(reset=..., baselabel=...) called inside the block
BlockToc ==
    /\ timer.phase = "inside"
    /\ \E reset \in Flags, baselabel \in BaseLabels :
        LET r == toc([TocDefaults EXCEPT !.reset = reset, !.baselabel = baselabel], _tictime, clock)
        IN  /\ _tictime' = r.tictime
            /\ since' = IF Truthy(reset) THEN Num(clock) ELSE since
    /\ UNCHANGED <<clock, own, pc, done, timer>>
    /\ UNCHANGED dvars

\* callers of tic, toc and toctic, interleaved
NextWatch ==
    \/ Tick
    \/ \E c \in Callers : TicStore(c)
    \/ \E c \in Callers : TicReturn(c)
    \/ \E c \in Callers : Toc(c)
    \/ \E c \in Callers : Toctic(c)

SpecWatch == Init /\ [][NextWatch]_vars

\* one thread using a Timer around a block
NextTimer ==
    \/ Tick
    \/ TimerNew \/ TimerEnter \/ BlockTic \/ BlockToc \/ TimerBlockRaises \/ TimerExit
    \/ TimerDrop

SpecTimer == Init /\ [][NextTimer]_vars

----------------------------------------------------------------------------
(* What the calls are expected to do                                       *)

ShapeCalls == {"readdate", "date", "day"}

IsScalar(v) == v.t \notin {"None", "list", "array"}

IsDateLike(v) == v.t \in {"str", "date", "datetime"}

\* the elements handed to a call, in the order given
InputElems(c) ==
    (IF c.obj.t \in {"list", "array"} THEN c.obj.items
     ELSE IF c.obj.t = "None" THEN <<>> ELSE <<c.obj>>) \o c.args

\* the elements of a result, in the order returned
OutputElems(r) == IF r.val.t \in {"list", "array"} THEN r.val.items ELSE <<r.val>>

\* the outcome for the element e of the call c made on the list [e]
Alone(c, e) ==
    Bind(CASE c.fn = "readdate" -> readdate(List(<<e>>), <<>>, c.dateformat)
           [] c.fn = "date"     -> date(List(<<e>>), <<>>, c.kw)
           [] c.fn = "day"      -> day(List(<<e>>), <<>>, c.start_date),
         LAMBDA r : IF r.ok THEN Ok(OutputElems(r)[1]) ELSE r)

\* output position i holds the conversion of input position i; for day
\* without a start date this is stated of the elements that no date-like
\* element precedes
InOrder(c, r, i) ==
    LET elems == InputElems(c)
    IN  \/ /\ c.fn = "day"
           /\ ~Truthy(c.start_date)
           /\ \E j \in 1..(i - 1) : IsDateLike(elems[j])
        \/ r.val.items[i] = Alone(c, elems[i]).val

C2_NonePropagates ==
    (/\ call.fn \in ShapeCalls
     /\ call.obj.t = "list"
     /\ call.args = <<>>
     /\ \E i \in 1..Len(call.obj.items) : call.obj.items[i] = None
     /\ \A i \in 1..Len(call.obj.items) :
           call.obj.items[i] # None => Alone(call, call.obj.items[i]).ok) =>
        /\ ret.ok
        /\ Len(ret.val.items) = Len(call.obj.items)
        /\ \A i \in 1..Len(call.obj.items) :
              (call.obj.items[i] = None) <=> (ret.val.items[i] = None)

\* the part of C2 that date and day keep: None stays None at its position
C2_NoneKeptByDateAndDay ==
    (/\ call.fn \in {"date", "day"}
     /\ call.obj.t = "list"
     /\ call.args = <<>>
     /\ ret.ok) =>
        \A i \in 1..Len(call.obj.items) :
            (call.obj.items[i] = None) <=> (ret.val.items[i] = None)

\* C3: for a string element, readdate returns the parse under the first
\* pattern that matches, in the catalog order of the selected mode (the
\* default chain, dmy, mdy, or the caller's patterns in the order given,
\* which replace the default chain); a later pattern that also matches
\* never determines the result; a string alone is read exactly when some
\* pattern of the catalog matches it.
C3_FirstMatchWins ==
    (call.fn = "readdate") =>
        LET elems == InputElems(call)
            cat   == Catalog(call.dateformat)
        IN  /\ ret.ok =>
                 \A i \in 1..Len(elems) :
                     elems[i].t = "str" =>
                        \E k \in 1..Len(cat) :
                           /\ strptime(elems[i], cat[k].fmt.s).ok
                           /\ \A j \in 1..(k - 1) : ~strptime(elems[i], cat[j].fmt.s).ok
                           /\ OutputElems(ret)[i] = strptime(elems[i], cat[k].fmt.s).val
            /\ (call.obj.t = "str" /\ call.args = <<>>) =>
                 (ret.ok <=> \E k \in 1..Len(cat) : strptime(call.obj, cat[k].fmt.s).ok)

\* 04-03-2020 under the patterns (day-month-year, month-day-year): both
\* match, and the first one gave 4 March
C3_Witness_AmbiguousFirst ==
    /\ call.fn = "readdate"
    /\ call.obj = AmbiguousStr
    /\ call.args = <<>>
    /\ call.dateformat = List(<<DmyPattern, MdyPattern>>)
    /\ strptime(AmbiguousStr, DmyPattern.s).ok
    /\ strptime(AmbiguousStr, MdyPattern.s).ok
    /\ ret = Ok(MkDatetime(2020, 3, 4, 0, 0, 0, 0))

\* C4: when a string element matches no pattern of the catalog, readdate
\* fails with the exhausted-parse error only after every pattern of the
\* catalog has been attempted, and the error carries both the full list of
\* attempted patterns and the underlying failure reason of each attempt.
C4_ExhaustedCarriesReasons ==
    (call.fn = "readdate" /\ ~ret.ok /\ ret.err.site = "readdate:229") =>
        LET cat == Catalog(call.dateformat)
            msg == ret.err.msg
        IN  /\ Len(ret.exceptions) = Len(cat)
            /\ \A k \in 1..Len(cat) :
                  \E p \in 1..Len(msg) : msg[p].kind = "pattern" /\ msg[p].v = cat[k].fmt
            /\ \A k \in 1..Len(ret.exceptions) :
                  \E p \in 1..Len(msg) :
                     /\ msg[p].kind = "reason"
                     /\ msg[p].v = ret.exceptions[k].msg

\* the part of C4 the code keeps: the error is raised after every pattern
\* was attempted, and its message lists every pattern
C4_ExhaustedAfterAllPatterns ==
    (call.fn = "readdate" /\ ~ret.ok /\ ret.err.site = "readdate:229") =>
        LET cat == Catalog(call.dateformat)
            msg == ret.err.msg
        IN  /\ Len(ret.exceptions) = Len(cat)
            /\ \A k \in 1..Len(cat) : ret.exceptions[k].key = cat[k].key
            /\ \A k \in 1..Len(cat) :
                  \E p \in 1..Len(msg) : msg[p].kind = "pattern" /\ msg[p].v = cat[k].fmt

\* the values a dateformat argument names
ModeValues(dateformat) ==
    IF dateformat.t = "list" THEN {dateformat.items[i] : i \in 1..Len(dateformat.items)}
    ELSE {dateformat}

PosixMode(dateformat) == ModeValues(dateformat) \cap {None, ModePosix} # {}

OrdinalMode(dateformat) ==
    /\ ~PosixMode(dateformat)
    /\ ModeValues(dateformat) \cap {ModeOrdinal, ModeMatplotlib} # {}

\* C5: for a numeric element, readdate uses one interpretation per call:
\* the POSIX timestamp when the mode is unset or "posix", the ordinal day
\* count when the mode is "ordinal" or "matplotlib"; with any other mode
\* value it raises the numeric-mode usage error of line 216, which is not
\* the exhausted-parse error of line 229, and returns no value.
C5_NumericMode ==
    (call.fn = "readdate") =>
        LET elems == InputElems(call)
        IN  \A i \in 1..Len(elems) :
               (/\ elems[i].t = "num"
                /\ \A j \in 1..(i - 1) : Alone(call, elems[j]).ok) =>
                  IF PosixMode(call.dateformat)
                  THEN /\ ret.ok => OutputElems(ret)[i] = fromtimestamp(elems[i])
                       /\ ~ret.ok => ret.err.site # "readdate:216"
                  ELSE IF OrdinalMode(call.dateformat)
                  THEN /\ ret.ok => OutputElems(ret)[i] = num2date(elems[i])
                       /\ ~ret.ok => ret.err.site # "readdate:216"
                  ELSE /\ ~ret.ok
                       /\ ret.err.exc = "ValueError"
                       /\ ret.err.site = "readdate:216"
                       /\ ret.err.site # "readdate:229"

\* 5.5 was read under the mode "bogus" and the usage error came back
C5_Witness_BogusMode ==
    /\ call.fn = "readdate"
    /\ call.obj = Half(11)
    /\ call.args = <<>>
    /\ call.dateformat = Bogus
    /\ ~ret.ok
    /\ ret.err.site = "readdate:216"

\* 5.5 read as a POSIX timestamp and as an ordinal day count
C5_Witness_BothReadings ==
    /\ call.fn = "readdate"
    /\ call.obj = Half(11)
    /\ call.args = <<>>
    /\ \/ call.dateformat = None /\ ret = Ok(MkDatetime(1970, 1, 1, 0, 0, 5, 500000))
       \/ call.dateformat = ModeOrdinal /\ ret.ok /\ ret.val.d = 6 /\ ret.val.H = 12

\* the days from 1 January of the year of the date-like element e
OwnYearDay(e) ==
    LET d == date(e, <<>>, DateDefaults).val
    IN  Num(DaysBetween(d, MkDate(d.y, 1, 1)))

\* C6: when day is called with no start date on a sequence of date-like
\* elements, every output element is the number of days from 1 January of
\* that element's own year, whatever the other elements and their order.
C6_OwnYear ==
    (/\ call.fn = "day"
     /\ call.start_date = None
     /\ call.obj.t = "list"
     /\ call.args = <<>>
     /\ \A i \in 1..Len(call.obj.items) : IsDateLike(call.obj.items[i])
     /\ ret.ok) =>
        \A i \in 1..Len(call.obj.items) : ret.val.items[i] = OwnYearDay(call.obj.items[i])

\* what day does instead: every element is counted from 1 January of the
\* year of the first element
C6_FirstYear ==
    (/\ call.fn = "day"
     /\ call.start_date = None
     /\ call.obj.t = "list"
     /\ call.args = <<>>
     /\ \A i \in 1..Len(call.obj.items) : IsDateLike(call.obj.items[i])
     /\ ret.ok) =>
        \A i \in 1..Len(call.obj.items) :
            LET first == date(call.obj.items[1], <<>>, DateDefaults).val
                d     == date(call.obj.items[i], <<>>, DateDefaults).val
            IN  ret.val.items[i] = Num(DaysBetween(d, MkDate(first.y, 1, 1)))

\* the calendar date a date-like value stands for
AsDate(x) == date(x, <<>>, DateDefaults)

\* a date as daterange returns it: a date object or its %Y-%m-%d string
Shown(dd, as_date) == IF Truthy(as_date) THEN dd ELSE IsoStr(dd)

\* C7: for all dates a <= b, daterange(a, b, inclusive=True) is the
\* consecutive days a, a+1, ..., b (day(b, start_date=a) + 1 of them, the
\* first a, the last b), and daterange(a, b, inclusive=False) is the same
\* sequence without b (day(b, start_date=a) of them).
C7_ConsecutiveDays ==
    (/\ call.fn = "daterange"
     /\ IsDateLike(call.start_date) /\ AsDate(call.start_date).ok
     /\ IsDateLike(call.end_date) /\ AsDate(call.end_date).ok
     /\ ToOrdinal(AsDate(call.start_date).val) <= ToOrdinal(AsDate(call.end_date).val)) =>
        LET a   == AsDate(call.start_date).val
            b   == AsDate(call.end_date).val
            n   == ToOrdinal(b) - ToOrdinal(a)
            len == IF call.inclusive.b THEN n + 1 ELSE n
        IN  /\ day(call.end_date, <<>>, call.start_date) = Ok(Num(n))
            /\ ret.ok
            /\ ret.val.t = "list"
            /\ Len(ret.val.items) = len
            /\ \A k \in 1..len : ret.val.items[k] = Shown(FromOrdinal(ToOrdinal(a) + k - 1), call.as_date)
            /\ len > 0 => ret.val.items[1] = Shown(a, call.as_date)
            /\ call.inclusive.b => ret.val.items[len] = Shown(b, call.as_date)

\* the four days from 30 December 2019 to 2 January 2020, both ends included
C7_Witness_AcrossNewYear ==
    /\ call.fn = "daterange"
    /\ call.start_date = MkDate(2019, 12, 30)
    /\ call.end_date = Str(<<"2", "0", "2", "0", "/", "0", "1", "/", "0", "2">>)
    /\ call.inclusive = Bool(TRUE)
    /\ ret = Ok(List(<<IsoStr(MkDate(2019, 12, 30)), IsoStr(MkDate(2019, 12, 31)),
                       IsoStr(MkDate(2020, 1, 1)), IsoStr(MkDate(2020, 1, 2))>>))

\* C8: for any date-like input x accepted by datedelta (a date string, a
\* datetime or a date) and any integer n,
\* datedelta(datedelta(x, days=n), days=-n) equals x.
C8_ShiftAndBack ==
    /\ (/\ call.fn = "datedelta"
        /\ prev = NoPrev
        /\ call.as_date = None
        /\ IsDateLike(call.datestr)) => ret.ok
    /\ (/\ call.fn = "datedelta"
        /\ prev # NoPrev
        /\ call.as_date = None) => (ret.ok /\ ret.val = prev.call.datestr)

\* what the round trip gives instead: the %Y-%m-%d string of the calendar
\* date of x
C8_ShiftAndBackGivesIsoString ==
    (/\ call.fn = "datedelta"
     /\ prev # NoPrev
     /\ call.as_date = None) =>
        (ret.ok /\ ret.val = IsoStr(AsDate(prev.call.datestr).val))

\* C9: when datedelta is called without the as_date flag, the type of its
\* output mirrors the type of its input: a string input yields a string,
\* and a date or datetime input yields a date object rather than a string.
C9_OutputMirrorsInput ==
    (call.fn = "datedelta" /\ prev = NoPrev /\ call.as_date = None /\ ret.ok) =>
        /\ call.datestr.t = "str" => ret.val.t = "str"
        /\ call.datestr.t \in {"date", "datetime"} => ret.val.t = "date"

\* what the code does: without the flag every successful call returns a string
C9_NoFlagGivesString ==
    (call.fn = "datedelta" /\ call.as_date = None /\ ret.ok) => ret.val.t = "str"

\* C10: for any date-like x (string, datetime, date or integer day offset)
\* and any fixed start date s, day(date(x, start_date=s), start_date=s)
\* equals day(x, start_date=s).
C10_DayOfDate ==
    (/\ call.fn = "day"
     /\ prev # NoPrev
     /\ prev.call.kw.readformat = None) =>
        ret = day(prev.call.obj, prev.call.args, prev.call.kw.start_date)

\* the offset 5.5 from 27 February 2020 became 3 March 2020 and then the
\* day 5 again
C10_Witness_OffsetAndBack ==
    /\ call.fn = "day"
    /\ prev # NoPrev
    /\ prev.call.obj = Half(11)
    /\ prev.call.args = <<>>
    /\ prev.call.kw.readformat = None
    /\ prev.call.kw.start_date = IsoStr(MkDate(2020, 2, 27))
    /\ prev.ret.val \in {MkDate(2020, 3, 3), IsoStr(MkDate(2020, 3, 3))}
    /\ ret = Ok(Num(5))

\* the text after the leading count of a phrase "N <unit> ago"
CountUnits == {SecsAgo, MinsAgo, HoursAgo, DaysAgo}

\* s is a phrase "N <unit> ago" with the count written as n
IsCountPhrase(s, n) == \E u \in CountUnits : s = DecimalStr(n) \o u

\* s tells how long ago something was
IsAgoPhrase(s) ==
    \/ s \in {JustNow, AMinuteAgo, OneHourAgo, Yesterday}
    \/ \E u \in CountUnits : Len(s) > Len(u) /\ SubSeq(s, Len(s) - Len(u) + 1, Len(s)) = u

\* the day without a leading zero, the month name and, when it differs
\* from the year of now, the year
DateString(ts, now_time, shortmonths) ==
    DecimalStr(ts.d) \o <<" ">> \o (IF shortmonths.b THEN MonthAbbr[ts.m] ELSE MonthFull[ts.m])
    \o (IF ts.y # now_time.y THEN <<" ">> \o DecimalStr(ts.y) ELSE <<>>)

C11_Witness_FiftyNine ==
    /\ call.fn = "elapsedtimestr"
    /\ call.lag = 59
    /\ ret = Ok(Str(<<"5", "9">> \o SecsAgo))

C17_CountAtLeastOne ==
    (call.fn = "elapsedtimestr" /\ call.maxdays >= 1 /\ call.minseconds >= 0 /\ ret.ok) =>
        ~IsCountPhrase(ret.val.s, 0)

\* what holds instead: a count of zero appears only as "0 days ago", and
\* exactly for the elapsed time of 86399 seconds, which the hour bucket
\* excludes and which is less than one day
C17_ZeroOnlyJustBelowOneDay ==
    (call.fn = "elapsedtimestr" /\ call.maxdays >= 1 /\ call.minseconds >= 0 /\ ret.ok) =>
        /\ IsCountPhrase(ret.val.s, 0) <=> call.lag = 86399
        /\ call.lag = 86399 => ret.val.s = <<"0">> \o DaysAgo

\* the call reaches element i: every element before it converts
Reaches(c, i) == \A j \in 1..(i - 1) : Alone(c, InputElems(c)[j]).ok

\* C16: when date meets an element that is not None, a date, a datetime,
\* a string or a number, the call fails with a type error, surfaced to the
\* caller as that kind and distinguishable from the value and parse errors
\* (missing start date, no pattern matched); no partial result is returned.
C16_TypeErrorSurfaced ==
    (call.fn = "date" /\ call.obj.t # "None") =>
        \A i \in 1..Len(InputElems(call)) :
            (InputElems(call)[i] = Obj /\ Reaches(call, i)) =>
                /\ ~ret.ok
                /\ ret.err.exc = "TypeError"

\* what the caller gets instead: the ValueError of line 311, of the same
\* class and raise site as for a missing start date or an unreadable
\* string, with the TypeError of line 304 only as the exception it wraps
C16_TypeErrorWrapped ==
    (call.fn = "date" /\ call.obj.t # "None") =>
        /\ \A i \in 1..Len(InputElems(call)) :
              (InputElems(call)[i] = Obj /\ Reaches(call, i)) =>
                  /\ ~ret.ok
                  /\ ret.err.exc = "ValueError"
                  /\ ret.err.site = "date:311"
                  /\ ret.err.cause.exc = "TypeError"
                  /\ ret.err.cause.site = "date:304"
        /\ ~ret.ok => (ret.err.exc = "ValueError" /\ ret.err.site = "date:311")

----------------------------------------------------------------------------
(* What the stopwatch is expected to do                                    *)

\* the mark read as an instant: no mark counts as instant zero
MarkInstant(m) == IF m = Unset THEN Num(0) ELSE m

\* the elapsed time a finished call reported, printed or returned; Missing
\* when the call raised
Report(d) ==
    IF ~d.ret.ok THEN Missing
    ELSE IF Len(d.printed) > 0 THEN d.printed[1].elapsed
    ELSE d.ret.val

\* now minus the instant m, at the time the call d was made
Since(d, m) == Half(2 * d.at - m.h)

\* C12: after any calls of tic, toc and toctic the mark is the instant of
\* the most recent tic, toctic or toc(reset=True), and unset when there was
\* none; a toc without reset leaves the mark as it was; a toc without a
\* start reports now minus the mark, an unset mark counting as instant
\* zero and not failing; a toc with a start reports now minus that start.
C12_MarkAndReport ==
    /\ _tictime = since
    /\ done.fn = "toc" =>
        /\ ~Truthy(done.args.reset) => done.after = done.before
        /\ Report(done) = Since(done, IF done.args.start.t = "None" THEN MarkInstant(done.before)
                                      ELSE done.args.start)

\* C12, of the calls that pass baselabel: the report and the mark of a toc
\* are as stated
C12_TocGivenBaselabel ==
    (done.fn = "toc" /\ done.args.baselabel # Missing) =>
        /\ done.ret.ok
        /\ done.after = (IF Truthy(done.args.reset) THEN Num(done.at) ELSE done.before)
        /\ Report(done) = Since(done, IF done.args.start.t = "None" THEN MarkInstant(done.before)
                                      ELSE done.args.start)

\* C12: a toc that does not pass baselabel raises, reports nothing and
\* leaves the mark alone, reset or not
C12_TocWithoutBaselabelRaises ==
    (done.fn = "toc" /\ done.args.baselabel = Missing) =>
        /\ ~done.ret.ok /\ done.ret.err.site = "toc:620"
        /\ done.printed = <<>> /\ done.after = done.before

\* C13: toctic does toc and then tic: the elapsed time is taken against the
\* mark of before the call, afterwards the mark is the instant of the call,
\* and toctic returns the new mark when the tic result is asked for, the
\* elapsed time of its toc when the toc result is asked for, and nothing
\* when neither is.
C13_TocThenTic ==
    done.fn = "toctic" =>
        /\ done.after = Num(done.at)
        /\ Truthy(done.returntic) => done.ret = Ok(Num(done.at))
        /\ (~Truthy(done.returntic) /\ Truthy(done.returntoc)) =>
               done.ret = Ok(Since(done, MarkInstant(done.before)))
        /\ (~Truthy(done.returntic) /\ ~Truthy(done.returntoc)) => done.ret = Ok(None)

\* C13, of the calls that pass baselabel: toc runs first, against the old
\* mark, then tic sets the mark; the toc result handed back is what toc
\* returned, which is the elapsed time only with output=True
C13_GivenBaselabel ==
    (done.fn = "toctic" /\ done.args.baselabel # Missing) =>
        /\ done.after = Num(done.at)
        /\ Truthy(done.returntic) => done.ret = Ok(Num(done.at))
        /\ (~Truthy(done.returntic) /\ Truthy(done.returntoc)) =>
               done.ret = (IF Truthy(done.args.output)
                           THEN Ok(Since(done, MarkInstant(done.before))) ELSE Ok(None))
        /\ (~Truthy(done.returntic) /\ ~Truthy(done.returntoc)) => done.ret = Ok(None)
        /\ ~Truthy(done.args.output) =>
               done.printed = <<logmessage(None, Since(done, MarkInstant(done.before)))>>

\* C13: a toctic that does not pass baselabel raises in its toc and never
\* reaches its tic
C13_WithoutBaselabelNoTic ==
    (done.fn = "toctic" /\ done.args.baselabel = Missing) =>
        ~done.ret.ok /\ done.ret.err.site = "toc:620" /\ done.after = done.before

\* what the claim expects of a Timer that has left its block
ReportedOnce(tm) ==
    /\ Len(tm.printed) = 1
    /\ tm.printed[1].elapsed = Half(2 * tm.at - 2 * tm.entered)
    /\ tm.raised = (IF tm.failed THEN BlockError ELSE None)

\* C14: a Timer used on a block marks its start on entry and reports the
\* elapsed time exactly once on exit, whether the block ends normally or
\* raises, and the error of the block still propagates; the time reported
\* is measured from the Timer's own entry, whatever tic or toc(reset=True)
\* did to the global inside the block.
C14_ScopedTimer ==
    /\ timer.phase = "inside" => timer.self._start = Num(timer.entered)
    /\ timer.phase = "left" => ReportedOnce(timer)

\* C14, of a Timer made with baselabel among its keyword arguments
C14_GivenBaselabel ==
    (timer.phase = "left" /\ timer.self.kwargs.baselabel # Missing) => ReportedOnce(timer)

\* C14: a Timer made without baselabel reports nothing on exit, and the
\* error of its toc leaves the with statement in place of the block's
C14_WithoutBaselabelNoReport ==
    (timer.phase = "left" /\ timer.self.kwargs.baselabel = Missing) =>
        /\ timer.printed = <<>>
        /\ timer.raised # None /\ timer.raised.exc = "TypeError" /\ timer.raised.site = "toc:620"

\* a Timer with baselabel left a failing block after the global was moved inside it
C14_Witness_MovedInside ==
    /\ timer.phase = "left" /\ timer.self.kwargs.baselabel # Missing /\ timer.failed
    /\ _tictime # timer.self._start /\ timer.at > timer.entered

\* the finished call is a toc that named no start and reported the time
\* since a mark that is not the instant its caller's own tic returned
ReportsFromOther(d) ==
    /\ d.fn = "toc" /\ d.args.start.t = "None" /\ d.ret.ok
    /\ own[d.who] # None /\ d.before # own[d.who]
    /\ Report(d) = Since(d, d.before)

\* C15: with callers interleaving on the unlocked mark, a toc without a
\* start can report the time since another caller's tic, whereas a toc
\* given the instant its caller's own tic returned reports now minus that
\* instant under every interleaving.
C15_OwnStartAlways ==
    (done.fn = "toc" /\ done.args.start.t # "None") =>
        Report(done) = Since(done, done.args.start)

\* C15, of the calls that pass baselabel: a toc given a start reports now
\* minus that start under every interleaving
C15_OwnStartGivenBaselabel ==
    (done.fn = "toc" /\ done.args.start.t # "None" /\ done.args.baselabel # Missing) =>
        Report(done) = Since(done, done.args.start)

\* C15: the report from another caller's mark is made by no toc that does
\* not pass baselabel
C15_RaceOnlyGivenBaselabel ==
    ReportsFromOther(done) => done.args.baselabel # Missing

\* C15: a toc that passed baselabel reported from another caller's mark
C15_Witness_Race == ReportsFromOther(done)

====
